---- MODULE Spec2Model ----
(***************************************************************************)
(* Model of the Brazilian e-commerce orders pipeline:                      *)
(*   src/src/database.py    ingestion (load_csv_data), transform           *)
(*                          (process_data), persistence (setup_database,   *)
(*                          insert_data_into_db), data_pipeline            *)
(*   src/src/processing.py  analytics and filter/ranking functions         *)
(*   src/src/api.py         request handlers                               *)
(*   src/src/main.py        main                                           *)
(*                                                                         *)
(* Representation.                                                         *)
(*  - A nullable cell is an option: Null is <<>>, a present value v is     *)
(*    <<v>>.                                                               *)
(*  - A DataFrame is a sequence of records (rows, in frame order).         *)
(*  - Money is counted in thousandths of a currency unit, so that          *)
(*    rounding to 2 decimals (multiples of 10) is not the identity.        *)
(*  - A timestamp is DateOrdinal(y, m, d) * 24 + hour.            *)
(*  - Text that the code parses (dates, the n of a request) is a sequence  *)
(*    of one-character strings.                                            *)
(*  - polars group_by is called without maintain_order and sort without    *)
(*    maintain_order: the order of the groups, and of rows with equal sort *)
(*    keys, is not fixed by the library.  Both are modelled as a choice    *)
(*    over all the orders the library may produce.                         *)
(*  - Pass-through columns that no operation reads (order_status and the   *)
(*    approval/delivery timestamps) are left out of the rows.              *)
(***************************************************************************)
EXTENDS Integers, Sequences, FiniteSets, TLC

VARIABLES
    files,    \* set of source keys whose CSV file exists in WORKING_DIR
    csv,      \* contents of the raw CSV tables: key -> DataFrame
    db,       \* orders.db: [exists |-> file present, tables |-> name -> rows]
    df,       \* the DataFrame the last library function was called on
    call,     \* the last operation and its arguments
    ret,      \* how it ended: [kind |-> "returned" | "raised" | "none", ...]
    steps     \* the stages the last operation went through, in order

vars == <<files, csv, db, df, call, ret, steps>>

(***************************************************************************)
(* Bounds of the model.                                                    *)
(***************************************************************************)
MaxRows == 3
MaxN == 3
MaxOrders == 2
MaxItems == 2

(***************************************************************************)
(* Options, sequences, permutations.                                       *)
(***************************************************************************)
Null == <<>>
Some(v) == <<v>>
IsNull(c) == c = Null
Val(c) == c[1]

Range(s) == {s[i] : i \in 1..Len(s)}

SeqsUpTo(S, n) == UNION {[1..k -> S] : k \in 0..n}

\* All orderings of a finite set, as sequences without repetition.
Orderings(S) ==
    {s \in [1..Cardinality(S) -> S] : \A i, j \in 1..Cardinality(S) : s[i] = s[j] => i = j}

Min2(a, b) == IF a <= b THEN a ELSE b
Max2(a, b) == IF a >= b THEN a ELSE b

\* How a call ends: it returns a value or raises an exception.
Returned(v) == [kind |-> "returned", value |-> v]
Raised(e) == [kind |-> "raised", error |-> e]

(***************************************************************************)
(* polars column aggregations over a DataFrame (a sequence of rows).       *)
(***************************************************************************)
\* pl.sum(col): nulls are skipped; the sum of no values is 0.
RECURSIVE ColSum(_, _)
ColSum(rows, col) ==
    IF rows = <<>> THEN 0
    ELSE (IF IsNull(Head(rows)[col]) THEN 0 ELSE Val(Head(rows)[col]))
         + ColSum(Tail(rows), col)

\* pl.count(col): the number of non-null values.
RECURSIVE ColCount(_, _)
ColCount(rows, col) ==
    IF rows = <<>> THEN 0
    ELSE (IF IsNull(Head(rows)[col]) THEN 0 ELSE 1) + ColCount(Tail(rows), col)

\* pl.first(col): the cell of the first row, null or not.
ColFirst(rows, col) == Head(rows)[col]

\* pl.max(col) / pl.min(col): nulls are skipped; null when every value is null.
RECURSIVE ColMax(_, _)
ColMax(rows, col) ==
    IF rows = <<>> THEN Null
    ELSE LET h == Head(rows)[col]
             t == ColMax(Tail(rows), col)
         IN  IF IsNull(h) THEN t
             ELSE IF IsNull(t) THEN h
             ELSE Some(Max2(Val(h), Val(t)))

RECURSIVE ColMin(_, _)
ColMin(rows, col) ==
    IF rows = <<>> THEN Null
    ELSE LET h == Head(rows)[col]
             t == ColMin(Tail(rows), col)
         IN  IF IsNull(h) THEN t
             ELSE IF IsNull(t) THEN h
             ELSE Some(Min2(Val(h), Val(t)))

\* Expr.round(2) on a non-negative amount in thousandths: the nearest multiple
\* of 10, a tie going to the even hundredth.
Round2(x) ==
    LET q == x \div 10
        r == x % 10
    IN  IF r < 5 THEN q * 10
        ELSE IF r > 5 THEN (q + 1) * 10
        ELSE IF q % 2 = 0 THEN q * 10 ELSE (q + 1) * 10

\* pl.mean(col).round(2): null when the column holds no value.  The quotient
\* is taken to the thousandth before it is rounded.
ColMeanRound2(rows, col) ==
    IF ColCount(rows, col) = 0 THEN Null
    ELSE Some(Round2(ColSum(rows, col) \div ColCount(rows, col)))

\* DataFrame.filter(pred): the rows for which pred is true, in frame order.
\* A comparison with a null cell is null, and filter drops the row.
FilterRows(rows, Keep(_)) == SelectSeq(rows, Keep)

\* The rows of one group, in frame order (group_by keeps the order of the rows
\* inside a group); null keys form a group of their own.
GroupRows(rows, col, key) == SelectSeq(rows, LAMBDA r : r[col] = key)

GroupKeys(rows, col) == {rows[i][col] : i \in 1..Len(rows)}

\* DataFrame.group_by(col): one group per distinct key, in any order.
GroupOrders(rows, col) == Orderings(GroupKeys(rows, col))

\* DataFrame.sort(col, descending=True) of a frame whose col holds no null:
\* every arrangement of the rows with col descending.
SortDescending(rows, col) ==
    {[i \in 1..Len(rows) |-> rows[p[i]]] : p \in
        {q \in Orderings(1..Len(rows)) :
            \A i \in 1..(Len(rows) - 1) : Val(rows[q[i]][col]) >= Val(rows[q[i + 1]][col])}}

\* DataFrame.head(n): the first n rows; for n < 0 all rows but the last -n.
DfHead(rows, n) ==
    IF n >= 0 THEN SubSeq(rows, 1, Min2(n, Len(rows)))
    ELSE SubSeq(rows, 1, Max2(Len(rows) + n, 0))

(***************************************************************************)
(* The OrderFact row (the columns process_data selects, database.py        *)
(* 146-167) and the values the bounded inputs are drawn from.              *)
(***************************************************************************)
\* An order-preserving number for a calendar date (12 months of 31 day slots).
DateOrdinal(y, m, d) == (y * 12 + (m - 1)) * 31 + (d - 1)

\* A datetime: the date and the hour of the day.
Timestamp(y, m, d, h) == DateOrdinal(y, m, d) * 24 + h

FactRow(oid, cust, ts, price, freight, prod, cat, en, seller, qty) ==
    [order_id |-> oid,
     customer_unique_id |-> cust,
     order_purchase_timestamp |-> ts,
     customer_city |-> IF IsNull(cust) THEN Null ELSE Some("city_of_" \o Val(cust)),
     price |-> price,
     freight_value |-> freight,
     product_id |-> prod,
     product_category_name |-> cat,
     seller_id |-> seller,
     item_quantity |-> qty,
     payment_installments |-> IF IsNull(price) THEN Null ELSE Some(1),
     payment_value |-> IF IsNull(price) THEN Null ELSE Some(Val(price) + Val(freight)),
     review_score |-> Null,
     seller_city |-> IF IsNull(seller) THEN Null ELSE Some("city_of_" \o Val(seller)),
     product_category_name_english |-> en]

\* Every row of the fact table carries the order_id of its Orders row: the
\* frames drawn below number their rows, so order ids are present and distinct.
NumberOrders(rows) ==
    [i \in 1..Len(rows) |-> [rows[i] EXCEPT !.order_id = Some(i)]]

(***************************************************************************)
(* processing.py: analytics.  Each operator is the set of frames the call  *)
(* may return.                                                             *)
(***************************************************************************)
\* Mutant of CustomerSpendingRow: total_orders_value summed over payment_value.
CustomerSpendingRow_SumsPayment(data, key) ==
    LET g == GroupRows(data, "customer_unique_id", key)
    IN  [customer_unique_id |-> key,
         total_orders_value |-> Some(Round2(ColSum(g, "payment_value"))),
         order_count |-> Some(ColCount(g, "order_id")),
         total_shipping_cost |-> Some(Round2(ColSum(g, "freight_value"))),
         total_payment_value |-> Some(Round2(ColSum(g, "payment_value"))),
         last_order_date |-> ColMax(g, "order_purchase_timestamp"),
         first_order_date |-> ColMin(g, "order_purchase_timestamp"),
         customer_city |-> ColFirst(g, "customer_city")]

\* get_customer_spending, the aggregation of one group (lines 67-75).
CustomerSpendingRow(data, key) ==
    LET g == GroupRows(data, "customer_unique_id", key)
    IN  [customer_unique_id |-> key,
         total_orders_value |-> Some(Round2(ColSum(g, "price"))),
         order_count |-> Some(ColCount(g, "order_id")),
         total_shipping_cost |-> Some(Round2(ColSum(g, "freight_value"))),
         total_payment_value |-> Some(Round2(ColSum(g, "payment_value"))),
         last_order_date |-> ColMax(g, "order_purchase_timestamp"),
         first_order_date |-> ColMin(g, "order_purchase_timestamp"),
         customer_city |-> ColFirst(g, "customer_city")]

get_customer_spending(data) ==
    {[i \in 1..Len(ks) |-> CustomerSpendingRow(data, ks[i])] :
        ks \in GroupOrders(data, "customer_unique_id")}

\* get_sales_per_seller (lines 83-88).
SalesPerSellerRow(data, key) ==
    LET g == GroupRows(data, "seller_id", key)
    IN  [seller_id |-> key,
         total_orders_value |-> Some(Round2(ColSum(g, "price"))),
         total_orders |-> Some(ColCount(g, "order_id")),
         total_products_sold |-> Some(ColSum(g, "item_quantity")),
         seller_city |-> ColFirst(g, "seller_city")]

get_sales_per_seller(data) ==
    {[i \in 1..Len(ks) |-> SalesPerSellerRow(data, ks[i])] :
        ks \in GroupOrders(data, "seller_id")}

\* get_product_sales_analysis, lines 97-102: the frame with the category name
\* resolved (English, else the original name).  It is bound to products_df.
WithResolvedCategory(data) ==
    [i \in 1..Len(data) |->
        [data[i] EXCEPT !.product_category_name =
            IF IsNull(data[i].product_category_name_english)
            THEN data[i].product_category_name
            ELSE data[i].product_category_name_english]]

\* get_product_sales_analysis, the aggregation of one group (lines 104-108).
ProductSalesRow(frame, key) ==
    LET g == GroupRows(frame, "product_id", key)
    IN  [product_id |-> key,
         total_sold |-> Some(ColSum(g, "item_quantity")),
         total_sales |-> Some(Round2(ColSum(g, "price"))),
         average_price |-> ColMeanRound2(g, "price"),
         product_category |-> ColFirst(g, "product_category_name_english")]

\* Line 104 rebinds products_df to a grouping of `data`, not of the frame of
\* lines 97-102, which is dropped.
get_product_sales_analysis(data) ==
    LET products_df == WithResolvedCategory(data)
        grouped == {[i \in 1..Len(ks) |-> ProductSalesRow(data, ks[i])] :
                        ks \in GroupOrders(data, "product_id")}
    IN  UNION {SortDescending(g, "total_sold") : g \in grouped}

\* get_top_customers, the aggregation of one group (lines 206-208).
TopCustomersRow(data, key) ==
    LET g == GroupRows(data, "customer_unique_id", key)
    IN  [customer_unique_id |-> key,
         total_orders_value |-> Some(Round2(ColSum(g, "price"))),
         total_items_ordered |-> Some(ColCount(g, "item_quantity"))]

\* Mutant of get_top_customers: the sort is left out.
get_top_customers_NoSort(data, n) ==
    {DfHead([i \in 1..Len(ks) |-> TopCustomersRow(data, ks[i])], n) :
        ks \in GroupOrders(data, "customer_unique_id")}

\* get_top_customers (lines 203-210): group, sort descending, head(n).
get_top_customers(data, n) ==
    LET grouped == {[i \in 1..Len(ks) |-> TopCustomersRow(data, ks[i])] :
                        ks \in GroupOrders(data, "customer_unique_id")}
    IN  UNION {{DfHead(s, n) : s \in SortDescending(g, "total_orders_value")} :
                  g \in grouped}

(***************************************************************************)
(* datetime.strptime(text, '%Y-%m-%d') on a sequence of characters.        *)
(* The format compiles to the regular expression                           *)
(*   (\d\d\d\d)-(1[0-2]|0[1-9]|[1-9])-(3[01]|[12]\d|0[1-9]|[1-9]| [1-9])   *)
(* which must match the whole text; the fields must then name a date that  *)
(* exists.  No alternative contains "-", so the text matches exactly when  *)
(* it splits at "-" into three fields that match.                          *)
(***************************************************************************)
DigitChars == <<"0", "1", "2", "3", "4", "5", "6", "7", "8", "9">>

IsDigit(c) == \E i \in 1..Len(DigitChars) : DigitChars[i] = c

DigitVal(c) == (CHOOSE i \in 1..Len(DigitChars) : DigitChars[i] = c) - 1

RECURSIVE DigitsVal(_)
DigitsVal(cs) ==
    IF cs = <<>> THEN 0
    ELSE DigitsVal(SubSeq(cs, 1, Len(cs) - 1)) * 10 + DigitVal(cs[Len(cs)])

\* The fields of text between the separators sep.
RECURSIVE SplitAt(_, _)
SplitAt(text, sep) ==
    IF \A i \in 1..Len(text) : text[i] # sep THEN <<text>>
    ELSE LET k == CHOOSE i \in 1..Len(text) :
                      text[i] = sep /\ \A j \in 1..(i - 1) : text[j] # sep
         IN  <<SubSeq(text, 1, k - 1)>> \o SplitAt(SubSeq(text, k + 1, Len(text)), sep)

MatchesYear(f) == Len(f) = 4 /\ \A i \in 1..4 : IsDigit(f[i])

MatchesMonth(f) ==
    \/ Len(f) = 2 /\ f[1] = "1" /\ f[2] \in {"0", "1", "2"}
    \/ Len(f) = 2 /\ f[1] = "0" /\ IsDigit(f[2]) /\ f[2] # "0"
    \/ Len(f) = 1 /\ IsDigit(f[1]) /\ f[1] # "0"

MatchesDay(f) ==
    \/ Len(f) = 2 /\ f[1] = "3" /\ f[2] \in {"0", "1"}
    \/ Len(f) = 2 /\ f[1] \in {"1", "2"} /\ IsDigit(f[2])
    \/ Len(f) = 2 /\ f[1] \in {"0", " "} /\ IsDigit(f[2]) /\ f[2] # "0"
    \/ Len(f) = 1 /\ IsDigit(f[1]) /\ f[1] # "0"

IsLeap(y) == y % 4 = 0 /\ (y % 100 # 0 \/ y % 400 = 0)

DaysInMonth(y, m) ==
    IF m = 2 THEN (IF IsLeap(y) THEN 29 ELSE 28)
    ELSE IF m \in {4, 6, 9, 11} THEN 30 ELSE 31

\* [ok |-> TRUE, value |-> the datetime at midnight] or [ok |-> FALSE]
\* (ValueError).
strptime(text) ==
    LET f == SplitAt(text, "-")
    IN  IF Len(f) # 3 THEN [ok |-> FALSE]
        ELSE IF ~(MatchesYear(f[1]) /\ MatchesMonth(f[2]) /\ MatchesDay(f[3]))
        THEN [ok |-> FALSE]
        ELSE LET y == DigitsVal(f[1])
                 m == DigitsVal(f[2])
                 d == DigitsVal(SelectSeq(f[3], IsDigit))
             IN  IF y < 1 \/ d > DaysInMonth(y, m) THEN [ok |-> FALSE]
                 ELSE [ok |-> TRUE, value |-> Timestamp(y, m, d, 0)]

(***************************************************************************)
(* processing.py: filter functions.  A call ends by returning a frame or   *)
(* by raising.                                                             *)
(***************************************************************************)
\* Mutant of InDateRange: the end bound is exclusive.
InDateRange_EndExclusive(r, start_date_dt, end_date_dt) ==
    /\ ~IsNull(r.order_purchase_timestamp)
    /\ Val(r.order_purchase_timestamp) >= start_date_dt
    /\ Val(r.order_purchase_timestamp) < end_date_dt

\* The filter predicate of get_orders_by_date (lines 198-200).
InDateRange(r, start_date_dt, end_date_dt) ==
    /\ ~IsNull(r.order_purchase_timestamp)
    /\ Val(r.order_purchase_timestamp) >= start_date_dt
    /\ Val(r.order_purchase_timestamp) <= end_date_dt

\* Mutant of get_orders_by_date: a date that does not parse is ignored and the
\* frame comes back unfiltered.
get_orders_by_date_IgnoresBadDate(data, start_date, end_date) ==
    LET start_date_dt == strptime(start_date)
        end_date_dt == strptime(end_date)
    IN  IF ~start_date_dt.ok \/ ~end_date_dt.ok THEN Returned(data)
        ELSE Returned(FilterRows(data,
                 LAMBDA r : InDateRange(r, start_date_dt.value, end_date_dt.value)))

\* get_orders_by_date (lines 190-201).
get_orders_by_date(data, start_date, end_date) ==
    LET start_date_dt == strptime(start_date)
        end_date_dt == strptime(end_date)
    IN  IF ~start_date_dt.ok \/ ~end_date_dt.ok THEN Raised("ValueError")
        ELSE Returned(FilterRows(data,
                 LAMBDA r : InDateRange(r, start_date_dt.value, end_date_dt.value)))

\* pl.col(col) == id: true for the rows whose cell is present and equal.
ColEquals(r, col, id) == ~IsNull(r[col]) /\ Val(r[col]) = id

\* get_orders_by_customer (lines 212-216).
get_orders_by_customer(data, customer_id) ==
    FilterRows(data, LAMBDA r : ColEquals(r, "customer_unique_id", customer_id))

\* Mutant of get_orders_by_seller: the filter names the product_id column.
get_orders_by_seller_WrongColumn(data, seller_id) ==
    FilterRows(data, LAMBDA r : ColEquals(r, "product_id", seller_id))

\* get_orders_by_seller (lines 218-222).
get_orders_by_seller(data, seller_id) ==
    FilterRows(data, LAMBDA r : ColEquals(r, "seller_id", seller_id))

\* get_orders_by_product (lines 224-228).
get_orders_by_product(data, product_id) ==
    FilterRows(data, LAMBDA r : ColEquals(r, "product_id", product_id))

(***************************************************************************)
(* database.py: ingestion.                                                 *)
(***************************************************************************)
\* The keys of file_paths (lines 72-81), in the order the loop visits them.
SourceKeys ==
    <<"customers", "orders", "order_items", "payments", "reviews", "products",
      "sellers", "product_translation">>

\* Mutant of LoadLoop: a missing file is skipped, the loop goes on.
RECURSIVE LoadLoop_SkipsMissing(_, _, _, _)
LoadLoop_SkipsMissing(present, contents, k, data_frames) ==
    IF k > Len(SourceKeys) THEN Returned(data_frames)
    ELSE IF SourceKeys[k] \notin present
    THEN LoadLoop_SkipsMissing(present, contents, k + 1, data_frames)
    ELSE LoadLoop_SkipsMissing(present, contents, k + 1,
             [key \in DOMAIN data_frames \cup {SourceKeys[k]} |->
                 IF key = SourceKeys[k] THEN contents[key] ELSE data_frames[key]])

\* The loop of load_csv_data (lines 85-93) from the k-th key on: a missing file
\* raises FileNotFoundError at once, a present one is read into data_frames.
RECURSIVE LoadLoop(_, _, _, _)
LoadLoop(present, contents, k, data_frames) ==
    IF k > Len(SourceKeys) THEN Returned(data_frames)
    ELSE IF SourceKeys[k] \notin present THEN Raised("FileNotFoundError")
    ELSE LoadLoop(present, contents, k + 1,
             [key \in DOMAIN data_frames \cup {SourceKeys[k]} |->
                 IF key = SourceKeys[k] THEN contents[key] ELSE data_frames[key]])

\* load_csv_data (lines 69-93): present is the set of keys whose file exists,
\* contents the frame each file holds.
load_csv_data(present, contents) == LoadLoop(present, contents, 1, <<>>)

(***************************************************************************)
(* database.py: transform.                                                 *)
(***************************************************************************)
\* A row of the left frame with the columns cols taken from a right row.
JoinedRow(l, r, cols) ==
    [c \in DOMAIN l \cup cols |-> IF c \in cols THEN r[c] ELSE l[c]]

\* Mutant of UnmatchedRow: the numeric columns without a match are filled
\* with 0.
UnmatchedRow_Zeros(l, cols) ==
    [c \in DOMAIN l \cup cols |->
        IF c \in cols
        THEN (IF c \in {"price", "freight_value", "item_quantity", "payment_installments",
                        "payment_value", "review_score"}
              THEN Some(0) ELSE Null)
        ELSE l[c]]

UnmatchedRow(l, cols) ==
    [c \in DOMAIN l \cup cols |-> IF c \in cols THEN Null ELSE l[c]]

\* Mutant of LeftJoin: the result follows the order of the right frame, the
\* left rows without a match come last.
RECURSIVE MatchesInRightOrder(_, _, _, _)
MatchesInRightOrder(left, right, on, cols) ==
    IF right = <<>> THEN <<>>
    ELSE LET r == Head(right)
             m == SelectSeq(left, LAMBDA l : ~IsNull(l[on]) /\ l[on] = r[on])
         IN  [i \in 1..Len(m) |-> JoinedRow(m[i], r, cols)]
             \o MatchesInRightOrder(left, Tail(right), on, cols)

LeftJoin_RightOrder(left, right, on, cols) ==
    LET un == SelectSeq(left, LAMBDA l :
                  IsNull(l[on]) \/ \A i \in 1..Len(right) : right[i][on] # l[on])
    IN  MatchesInRightOrder(left, right, on, cols)
        \o [i \in 1..Len(un) |-> UnmatchedRow(un[i], cols)]

\* Mutant of LeftJoin: an inner join, rows without a match are dropped.
RECURSIVE LeftJoin_Inner(_, _, _, _)
LeftJoin_Inner(left, right, on, cols) ==
    IF left = <<>> THEN <<>>
    ELSE LET l == Head(left)
             m == SelectSeq(right, LAMBDA r : ~IsNull(l[on]) /\ r[on] = l[on])
         IN  [i \in 1..Len(m) |-> JoinedRow(l, m[i], cols)]
             \o LeftJoin_Inner(Tail(left), right, on, cols)

\* left.join(right, on=on, how='left'); cols are the other columns of right.
\* Every left row is kept, in order: once per matching right row, or once with
\* nulls when none matches.  A null key matches nothing.
RECURSIVE LeftJoin(_, _, _, _)
LeftJoin(left, right, on, cols) ==
    IF left = <<>> THEN <<>>
    ELSE LET l == Head(left)
             m == SelectSeq(right, LAMBDA r : ~IsNull(l[on]) /\ r[on] = l[on])
         IN  (IF m = <<>> THEN <<UnmatchedRow(l, cols)>>
              ELSE [i \in 1..Len(m) |-> JoinedRow(l, m[i], cols)])
             \o LeftJoin(Tail(left), right, on, cols)

\* Mutant of OrderItemsAggRow: the product, category and seller are those of
\* the last item row of the order.
OrderItemsAggRow_Last(order_items_with_products, key) ==
    LET g == GroupRows(order_items_with_products, "order_id", key)
    IN  [order_id |-> key,
         price |-> Some(ColSum(g, "price")),
         freight_value |-> Some(ColSum(g, "freight_value")),
         product_id |-> g[Len(g)].product_id,
         product_category_name |-> g[Len(g)].product_category_name,
         seller_id |-> g[Len(g)].seller_id,
         item_quantity |-> Some(ColCount(g, "order_item_id"))]

\* order_items_agg, one group (lines 115-122).
OrderItemsAggRow(order_items_with_products, key) ==
    LET g == GroupRows(order_items_with_products, "order_id", key)
    IN  [order_id |-> key,
         price |-> Some(ColSum(g, "price")),
         freight_value |-> Some(ColSum(g, "freight_value")),
         product_id |-> ColFirst(g, "product_id"),
         product_category_name |-> ColFirst(g, "product_category_name"),
         seller_id |-> ColFirst(g, "seller_id"),
         item_quantity |-> Some(ColCount(g, "order_item_id"))]

\* payments_agg, one group (lines 125-128).
PaymentsAggRow(payments_df, key) ==
    LET g == GroupRows(payments_df, "order_id", key)
    IN  [order_id |-> key,
         payment_installments |-> ColFirst(g, "payment_installments"),
         payment_value |-> Some(ColSum(g, "payment_value"))]

\* Mutant of ColMeanInt: the mean is rounded to the nearest integer, a tie
\* going to the even one.
ColMeanInt_Rounds(rows, col) ==
    IF ColCount(rows, col) = 0 THEN Null
    ELSE LET n == ColCount(rows, col)
             q == ColSum(rows, col) \div n
             twice == 2 * (ColSum(rows, col) % n)
         IN  Some(IF twice < n THEN q
                  ELSE IF twice > n THEN q + 1
                  ELSE IF q % 2 = 0 THEN q ELSE q + 1)

\* pl.mean(col).cast(pl.Int32): the mean cut to its integer part; null when the
\* column holds no value.
ColMeanInt(rows, col) ==
    IF ColCount(rows, col) = 0 THEN Null
    ELSE Some(ColSum(rows, col) \div ColCount(rows, col))

\* reviews_agg, one group (lines 131-133).
ReviewsAggRow(reviews_df, key) ==
    LET g == GroupRows(reviews_df, "order_id", key)
    IN  [order_id |-> key, review_score |-> ColMeanInt(g, "review_score")]

\* frame.group_by(col).agg(...): the frames it may return, Row(frame, key)
\* being the aggregation of one group.
GroupByAgg(frame, col, Row(_, _)) ==
    {[i \in 1..Len(ks) |-> Row(frame, ks[i])] : ks \in GroupOrders(frame, col)}

\* The columns of OrderFact (lines 146-167) that the model keeps.
FactColumns ==
    {"order_id", "customer_unique_id", "order_purchase_timestamp", "customer_city",
     "price", "freight_value", "product_id", "product_category_name", "seller_id",
     "item_quantity", "payment_installments", "payment_value", "review_score",
     "seller_city", "product_category_name_english"}

\* select (lines 146-167).
SelectColumns(frame, cols) == [i \in 1..Len(frame) |-> [c \in cols |-> frame[i][c]]]

\* process_data (lines 95-172): the frames it may return.
process_data(data_frames) ==
    LET customers_df == data_frames["customers"]
        orders_df == data_frames["orders"]
        order_items_df == data_frames["order_items"]
        payments_df == data_frames["payments"]
        reviews_df == data_frames["reviews"]
        products_df == data_frames["products"]
        sellers_df == data_frames["sellers"]
        product_translation_df == data_frames["product_translation"]
        orders_with_customers ==
            LeftJoin(orders_df, customers_df, "customer_id",
                     {"customer_unique_id", "customer_city"})
        order_items_with_products ==
            LeftJoin(order_items_df, products_df, "product_id", {"product_category_name"})
    IN  {SelectColumns(
             LeftJoin(
                 LeftJoin(
                     LeftJoin(
                         LeftJoin(
                             LeftJoin(orders_with_customers, order_items_agg, "order_id",
                                      {"price", "freight_value", "product_id",
                                       "product_category_name", "seller_id", "item_quantity"}),
                             payments_agg, "order_id",
                             {"payment_installments", "payment_value"}),
                         sellers_df, "seller_id", {"seller_city"}),
                     reviews_agg, "order_id", {"review_score"}),
                 product_translation_df, "product_category_name",
                 {"product_category_name_english"}),
             FactColumns) :
         order_items_agg \in GroupByAgg(order_items_with_products, "order_id", OrderItemsAggRow),
         payments_agg \in GroupByAgg(payments_df, "order_id", PaymentsAggRow),
         reviews_agg \in GroupByAgg(reviews_df, "order_id", ReviewsAggRow)}

(***************************************************************************)
(* processing.py: get_sales_analysis, on a frame with at least one row.    *)
(***************************************************************************)
TopSellerRow(data, key) ==
    [seller_id |-> key,
     total_sales |-> Some(Round2(ColSum(GroupRows(data, "seller_id", key), "price")))]

TopCustomerRow(data, key) ==
    [customer_unique_id |-> key,
     total_spent |->
         Some(Round2(ColSum(GroupRows(data, "customer_unique_id", key), "price")))]

\* Mutant of MostSoldProductRow: the item quantities are summed instead of the
\* orders counted.
MostSoldProductRow_SumsQuantity(data, key) ==
    [product_id |-> key,
     product_sales_count |->
         Some(ColSum(GroupRows(data, "product_id", key), "item_quantity"))]

MostSoldProductRow(data, key) ==
    [product_id |-> key,
     product_sales_count |-> Some(ColCount(GroupRows(data, "product_id", key), "order_id"))]

\* group_by(col).agg(...).sort(by, descending=True)[0]: the rows that may come
\* first.
TopRows(data, col, Row(_, _), by) ==
    {s[1] : s \in UNION {SortDescending(g, by) : g \in GroupByAgg(data, col, Row)}}

\* get_sales_analysis (lines 114-158): the one-row frames it may return.
get_sales_analysis(data) ==
    {<<[top_seller_id |-> top_seller.seller_id,
        top_seller_sales |-> top_seller.total_sales,
        top_customer_id |-> top_customer.customer_unique_id,
        top_customer_spent |-> top_customer.total_spent,
        most_sold_product_id |-> most_sold_product.product_id,
        most_sold_product_count |-> most_sold_product.product_sales_count,
        avg_order_value |-> ColMeanRound2(data, "price"),
        avg_shipping_fee |-> ColMeanRound2(data, "freight_value")]>> :
     top_seller \in TopRows(data, "seller_id", TopSellerRow, "total_sales"),
     top_customer \in TopRows(data, "customer_unique_id", TopCustomerRow, "total_spent"),
     most_sold_product \in
         TopRows(data, "product_id", MostSoldProductRow, "product_sales_count")}

(***************************************************************************)
(* The store: orders.db, a DuckDB file that holds named tables.            *)
(* database.py opens 'orders.db' in the working directory and              *)
(* processing.py the file of that name beside src/: the model takes the    *)
(* program to run from the repository root, where both name one file.      *)
(***************************************************************************)
\* insert_fault and save_fault are the condition of the database: the point at
\* which a write of insert_data_into_db, or of the saves of analyze_and_load,
\* meets an exception (0: none does).
NoDb == [exists |-> FALSE, tables |-> <<>>, insert_fault |-> 0, save_fault |-> 0]

HasTable(d, name) == name \in DOMAIN d.tables

\* A table written under name, replacing the table of that name if any.
WithTable(d, name, rows) ==
    [d EXCEPT !.exists = TRUE,
              !.tables = [t \in DOMAIN d.tables \cup {name} |->
                             IF t = name THEN rows ELSE d.tables[t]]]

\* Connecting to the DuckDB file creates it when it is absent.
Connected(d) == [d EXCEPT !.exists = TRUE]

\* Mutant of setup_database: an existing orders table is not dropped, and
\* create_all leaves it as it is.
setup_database_KeepsRows(d) ==
    IF HasTable(d, "orders") THEN d ELSE WithTable(d, "orders", <<>>)

\* setup_database (lines 47-61): the orders table is dropped if it exists and
\* created empty.
setup_database(d) == WithTable(d, "orders", <<>>)

\* The points at which insert_data_into_db may meet an exception: 0 is none,
\* k is Order(**record) or session.add of the k-th record, a k beyond the last
\* record is session.commit.
InsertFaults == 0..3

\* The save of analyze_and_load that meets an exception in write_database: 0 is
\* none, k the k-th.
SaveFaults == 0..4

\* The store in the condition (i, s).
InCondition(d, i, s) == [d EXCEPT !.insert_fault = i, !.save_fault = s]

\* Mutant of insert_data_into_db: the session is committed after every record,
\* so the records before the failing one stay.
insert_data_into_db_CommitsEachRow(d, final_orders_df) ==
    LET n == Len(final_orders_df)
        kept == IF d.insert_fault = 0 THEN final_orders_df
                ELSE SubSeq(final_orders_df, 1, Min2(d.insert_fault - 1, n))
    IN  [db |-> WithTable(d, "orders", d.tables["orders"] \o kept),
         steps |-> IF d.insert_fault = 0
                   THEN <<"insert_data_into_db", "session.commit", "session.close">>
                   ELSE <<"insert_data_into_db", "session.rollback", "session.close">>]

\* insert_data_into_db (lines 174-192): every record is added to the session,
\* which is committed once; an exception is logged and the session rolled
\* back, nothing is raised; the session is closed in both cases.
insert_data_into_db(d, final_orders_df) ==
    IF d.insert_fault = 0
    THEN [db |-> WithTable(d, "orders", d.tables["orders"] \o final_orders_df),
          steps |-> <<"insert_data_into_db", "session.commit", "session.close">>]
    ELSE [db |-> d,
          steps |-> <<"insert_data_into_db", "session.rollback", "session.close">>]

\* An outcome of an operation on the store: how it ended, the store it leaves
\* and the stages it went through.
Outcome(r, d, st) == [ret |-> r, db |-> d, steps |-> st]

\* The columns process_data names in each raw table (lines 109-167, those
\* the model keeps).
RequiredColumns ==
    [customers |-> {"customer_id", "customer_unique_id", "customer_city"},
     orders |-> {"order_id", "customer_id", "order_purchase_timestamp"},
     order_items |-> {"order_id", "order_item_id", "product_id", "seller_id", "price",
                      "freight_value"},
     payments |-> {"order_id", "payment_installments", "payment_value"},
     reviews |-> {"order_id", "review_score"},
     products |-> {"product_id", "product_category_name"},
     sellers |-> {"seller_id", "seller_city"},
     product_translation |-> {"product_category_name", "product_category_name_english"}]

\* process_data raises (ColumnNotFoundError) when a table lacks a column it
\* names; otherwise it returns.
HasColumns(data_frames) ==
    \A key \in DOMAIN RequiredColumns :
        \A i \in 1..Len(data_frames[key]) :
            RequiredColumns[key] \subseteq DOMAIN data_frames[key][i]

\* Mutant of data_pipeline: the database is set up before the sources are
\* loaded.
data_pipeline_SetupFirst(present, contents, d) ==
    LET loaded == load_csv_data(present, contents)
    IN  IF loaded.kind = "raised"
        THEN {Outcome(Returned(Null), setup_database(d),
                      <<"setup_database", "load_csv_data",
                        "log.error: Data pipeline failed">>)}
        ELSE IF ~HasColumns(loaded.value)
        THEN {Outcome(Returned(Null), setup_database(d),
                      <<"setup_database", "load_csv_data", "process_data",
                        "log.error: Data pipeline failed">>)}
        ELSE {LET ins == insert_data_into_db(setup_database(d), final_orders_df)
              IN  Outcome(Returned(Null), ins.db,
                          <<"setup_database", "load_csv_data", "process_data",
                            "create_session">> \o ins.steps
                          \o <<"log.info: Data pipeline completed successfully.">>) :
                 final_orders_df \in process_data(loaded.value)}

\* data_pipeline (lines 194-210): load, transform, set up the database,
\* insert.  Any exception is caught and logged, and the function returns None;
\* insert_data_into_db raises nothing, so the completion is logged after it.
data_pipeline(present, contents, d) ==
    LET loaded == load_csv_data(present, contents)
    IN  IF loaded.kind = "raised"
        THEN {Outcome(Returned(Null), d,
                      <<"load_csv_data", "log.error: Data pipeline failed">>)}
        ELSE IF ~HasColumns(loaded.value)
        THEN {Outcome(Returned(Null), d,
                      <<"load_csv_data", "process_data",
                        "log.error: Data pipeline failed">>)}
        ELSE {LET ins == insert_data_into_db(setup_database(d), final_orders_df)
              IN  Outcome(Returned(Null), ins.db,
                          <<"load_csv_data", "process_data", "setup_database",
                            "create_session">> \o ins.steps
                          \o <<"log.info: Data pipeline completed successfully.">>) :
                 final_orders_df \in process_data(loaded.value)}

\* create_engine (processing.py lines 17-30): the pipeline is run when the
\* database file does not exist.
create_engine(present, contents, d) ==
    IF ~d.exists
    THEN {Outcome(o.ret, o.db, <<"create_engine", "data_pipeline">> \o o.steps) :
             o \in data_pipeline(present, contents, d)}
    ELSE {Outcome(Returned(Null), d, <<"create_engine">>)}

\* load_data_from_db (lines 32-61): reflecting the table raises when it does
\* not exist.  A table without rows comes back as a frame without columns.
load_data_from_db(d, table_name, columns) ==
    IF ~HasTable(d, table_name)
    THEN Outcome(Raised("NoSuchTableError"), Connected(d), <<"load_data_from_db">>)
    ELSE Outcome(Returned(SelectColumns(d.tables[table_name], columns)), d,
                 <<"load_data_from_db">>)

\* Mutant of save_to_duckdb: if_table_exists='append'.
save_to_duckdb_Appends(d, data, table_name) ==
    WithTable(d, table_name,
              (IF HasTable(d, table_name) THEN d.tables[table_name] ELSE <<>>) \o data)

\* save_to_duckdb (lines 160-168): write_database(if_table_exists='replace').
save_to_duckdb(d, data, table_name) == WithTable(d, table_name, data)

\* The store without the table name.
WithoutTable(d, name) ==
    [d EXCEPT !.tables = [t \in DOMAIN d.tables \ {name} |-> d.tables[t]]]

\* Mutant of SaveLoop: the failure of a save is logged and the loop goes on
\* with the next table.
RECURSIVE SaveLoop_GoesOn(_, _, _)
SaveLoop_GoesOn(d, dfs, k) ==
    IF k > Len(dfs)
    THEN {Outcome(IF d.save_fault = 0 THEN Returned(Null) ELSE Raised("DatabaseError"),
                  d, <<>>)}
    ELSE IF k = d.save_fault
    THEN UNION {{Outcome(o.ret, o.db,
                         <<"save_to_duckdb", "log.error: Failed to save DataFrame">> \o o.steps) :
                    o \in SaveLoop_GoesOn(left, dfs, k + 1)} :
                left \in {d, WithoutTable(d, dfs[k][1])}}
    ELSE {Outcome(o.ret, o.db, <<"save_to_duckdb">> \o o.steps) :
             o \in SaveLoop_GoesOn(save_to_duckdb(d, dfs[k][2], dfs[k][1]), dfs, k + 1)}

\* The loop of analyze_and_load (lines 183-184) from the k-th entry of dfs on.
\* save_to_duckdb logs an exception of write_database and raises it again,
\* which ends the loop; the table whose write failed is as it was, or gone
\* (replace drops it before it writes).
RECURSIVE SaveLoop(_, _, _)
SaveLoop(d, dfs, k) ==
    IF k > Len(dfs) THEN {Outcome(Returned(Null), d, <<>>)}
    ELSE IF k = d.save_fault
    THEN {Outcome(Raised("DatabaseError"), left,
                  <<"save_to_duckdb", "log.error: Failed to save DataFrame">>) :
             left \in {d, WithoutTable(d, dfs[k][1])}}
    ELSE {Outcome(o.ret, o.db, <<"save_to_duckdb">> \o o.steps) :
             o \in SaveLoop(save_to_duckdb(d, dfs[k][2], dfs[k][1]), dfs, k + 1)}

\* analyze_and_load (lines 170-186).  The four views are computed from one
\* load of the table, then saved in the order of the dict.
analyze_and_load(d, table_name) ==
    LET loaded == load_data_from_db(d, table_name, FactColumns)
        orders_df == loaded.ret.value
    IN  IF loaded.ret.kind = "raised"
        THEN {Outcome(loaded.ret, loaded.db, <<"analyze_and_load">> \o loaded.steps)}
        ELSE IF orders_df = <<>>
        THEN {Outcome(Raised("ColumnNotFoundError"), loaded.db,
                      <<"analyze_and_load", "load_data_from_db", "get_customer_spending">>)}
        ELSE UNION {{Outcome(o.ret, o.db,
                             <<"analyze_and_load", "load_data_from_db",
                               "get_customer_spending", "get_sales_per_seller",
                               "get_product_sales_analysis", "get_sales_analysis">>
                             \o o.steps) :
                        o \in SaveLoop(loaded.db,
                                       <<<<"customers_analysis", c>>, <<"sellers_analysis", sl>>,
                                         <<"products_analysis", pr>>, <<"sales_analysis", sa>>>>,
                                       1)} :
                    c \in get_customer_spending(orders_df),
                    sl \in get_sales_per_seller(orders_df),
                    pr \in get_product_sales_analysis(orders_df),
                    sa \in get_sales_analysis(orders_df)}

\* main (main.py lines 6-29): the pipeline, then the analysis; an exception is
\* logged and raised again.
main(present, contents, d) ==
    UNION {UNION {{Outcome(a.ret, a.db,
                           <<"data_pipeline">> \o p.steps
                           \o <<"log.info: Data pipeline completed successfully.">>
                           \o e.steps \o a.steps
                           \o (IF a.ret.kind = "raised"
                               THEN <<"log.error: An error occurred">>
                               ELSE <<"log.info: Data analysis completed successfully.">>)) :
                      a \in analyze_and_load(e.db, "orders")} :
                  e \in create_engine(present, contents, p.db)} :
           p \in data_pipeline(present, contents, d)}

(***************************************************************************)
(* api.py: request handlers.  A query parameter is absent (Null) or a text. *)
(***************************************************************************)
Response(status, body, error) ==
    [kind |-> "response", status |-> status, body |-> body, error |-> error]

\* int(text): an optional sign, then digits only; [ok |-> FALSE] is ValueError.
ParseInt(text) ==
    LET signed == Len(text) > 0 /\ text[1] \in {"-", "+"}
        digits == IF signed THEN Tail(text) ELSE text
    IN  IF Len(digits) = 0 \/ \E i \in 1..Len(digits) : ~IsDigit(digits[i])
        THEN [ok |-> FALSE]
        ELSE [ok |-> TRUE,
              value |-> IF signed /\ text[1] = "-" THEN 0 - DigitsVal(digits)
                        ELSE DigitsVal(digits)]

\* request.args.get('n', 10)
DefaultTopN == 10

\* `not value`: the parameter is absent or empty.
Missing(arg, empty) == arg = Null \/ Val(arg) = empty

\* The body of a handler's try block (e.g. lines 126-130): create_engine,
\* load_data_from_db('orders', engine, columns), the library function fname,
\* the response.  Apply(frame) is the outcome of the library function on a
\* frame that has its columns; a frame without columns makes its column
\* expressions fail.  Any exception becomes a 500 response (lines 131-133).
Serve(present, contents, d, columns, fname, Apply(_)) ==
    UNION {LET loaded == load_data_from_db(e.db, "orders", columns)
               st == e.steps \o loaded.steps
           IN  IF loaded.ret.kind = "raised"
               THEN {Outcome(Response(500, <<>>, loaded.ret.error), loaded.db, st)}
               ELSE {Outcome(IF r.kind = "raised" THEN Response(500, <<>>, r.error)
                             ELSE IF loaded.ret.value = <<>>
                             THEN Response(500, <<>>, "ColumnNotFoundError")
                             ELSE Response(200, r.value, ""),
                             loaded.db, st \o <<fname>>) :
                        r \in Apply(loaded.ret.value)} :
           e \in create_engine(present, contents, d)}

\* Mutant of top_customers: the check reads n < 0.
top_customers_AcceptsZero(arg, present, contents, d) ==
    LET n == IF arg = Null THEN [ok |-> TRUE, value |-> DefaultTopN] ELSE ParseInt(Val(arg))
    IN  IF ~n.ok THEN {Outcome(Response(500, <<>>, "ValueError"), d, <<>>)}
        ELSE IF n.value < 0
        THEN {Outcome(Response(400, <<>>, "Number of top customers must be positive"),
                      d, <<>>)}
        ELSE Serve(present, contents, d,
                   {"customer_unique_id", "price", "item_quantity"}, "get_top_customers",
                   LAMBDA frame : {Returned(r) : r \in get_top_customers(frame, n.value)})

\* top_customers (lines 119-133).
top_customers(arg, present, contents, d) ==
    LET n == IF arg = Null THEN [ok |-> TRUE, value |-> DefaultTopN] ELSE ParseInt(Val(arg))
    IN  IF ~n.ok THEN {Outcome(Response(500, <<>>, "ValueError"), d, <<>>)}
        ELSE IF n.value <= 0
        THEN {Outcome(Response(400, <<>>, "Number of top customers must be positive"),
                      d, <<>>)}
        ELSE Serve(present, contents, d,
                   {"customer_unique_id", "price", "item_quantity"}, "get_top_customers",
                   LAMBDA frame : {Returned(r) : r \in get_top_customers(frame, n.value)})

\* orders_by_customer (lines 135-149).
orders_by_customer(arg, present, contents, d) ==
    IF Missing(arg, "")
    THEN {Outcome(Response(400, <<>>, "Customer ID is required"), d, <<>>)}
    ELSE Serve(present, contents, d, {"order_id", "customer_unique_id", "price"},
               "get_orders_by_customer",
               LAMBDA frame : {Returned(get_orders_by_customer(frame, Val(arg)))})

\* orders_by_seller (lines 151-165).
orders_by_seller(arg, present, contents, d) ==
    IF Missing(arg, "")
    THEN {Outcome(Response(400, <<>>, "Seller ID is required"), d, <<>>)}
    ELSE Serve(present, contents, d, {"order_id", "seller_id", "price"},
               "get_orders_by_seller",
               LAMBDA frame : {Returned(get_orders_by_seller(frame, Val(arg)))})

\* orders_by_product (lines 167-181).
orders_by_product(arg, present, contents, d) ==
    IF Missing(arg, "")
    THEN {Outcome(Response(400, <<>>, "Product ID is required"), d, <<>>)}
    ELSE Serve(present, contents, d,
               {"order_id", "product_id", "product_category_name",
                "product_category_name_english"},
               "get_orders_by_product",
               LAMBDA frame : {Returned(get_orders_by_product(frame, Val(arg)))})

\* orders_by_date (lines 102-117).
orders_by_date(start, end, present, contents, d) ==
    IF Missing(start, <<>>) \/ Missing(end, <<>>)
    THEN {Outcome(Response(400, <<>>, "Start date and end date are required"), d, <<>>)}
    ELSE Serve(present, contents, d, {"order_id", "order_purchase_timestamp"},
               "get_orders_by_date",
               LAMBDA frame : {get_orders_by_date(frame, Val(start), Val(end))})

(***************************************************************************)
(* Bounded inputs of the library functions.                                *)
(***************************************************************************)
\* State of the pipeline side while a library function is exercised alone.
NoFiles == {}
NoCsv == <<>>
T0 == Some(Timestamp(2022, 1, 1, 10))

\* An order with items (one product, one seller) or, with a null price, an
\* order without item rows: every item column is null.
OrderRow(cust, ts, price, prod, cat, en, seller, qty) ==
    IF IsNull(price)
    THEN FactRow(Null, cust, ts, Null, Null, Null, Null, Null, Null, Null)
    ELSE FactRow(Null, cust, ts, price, Some(507), prod, cat, en, seller, qty)

CustomerCells == {Null, Some("cust_1"), Some("cust_2")}
PriceCells == {Null, Some(1004), Some(2511)}

\* Rows that differ in customer and price.
CustomerRows ==
    {OrderRow(c, T0, p, Some("prod_1"), Some("cat_1"), Some("en_1"), Some("seller_1"), Some(1)) :
        c \in CustomerCells, p \in PriceCells}

\* Rows that differ in product, category names and quantity.  The category
\* names of a row are those of its product: cat_2 has no translation and
\* prod_3 has no category.
ProductProfiles ==
    {<<Some("prod_1"), Some("cat_1"), Some("en_1")>>,
     <<Some("prod_2"), Some("cat_2"), Null>>,
     <<Some("prod_3"), Null, Null>>}

ProductRows ==
    {OrderRow(Some("cust_1"), T0, Some(1004), pp[1], pp[2], pp[3], Some("seller_1"), Some(q)) :
        pp \in ProductProfiles, q \in {1, 2}}
    \cup {OrderRow(Some("cust_1"), T0, Null, Null, Null, Null, Null, Null)}

\* Rows that differ in purchase time, and rows that differ in the ids.
TimestampCells ==
    {Null,
     Some(Timestamp(2022, 1, 1, 0)), Some(Timestamp(2022, 1, 1, 10)),
     Some(Timestamp(2022, 1, 2, 0)), Some(Timestamp(2022, 1, 2, 11)),
     Some(Timestamp(2022, 1, 3, 0))}

IdProfiles ==
    {<<Some("cust_1"), Some("seller_1"), Some("prod_1")>>,
     <<Some("cust_2"), Some("seller_1"), Some("prod_2")>>,
     <<Some("cust_1"), Some("seller_2"), Some("prod_2")>>}

FilterInputRows ==
    {OrderRow(Some("cust_1"), t, Some(1004), Some("prod_1"), Some("cat_1"), Some("en_1"),
              Some("seller_1"), Some(1)) : t \in TimestampCells}
    \cup {OrderRow(ip[1], T0, Some(1004), ip[3], Some("cat_1"), Some("en_1"), ip[2], Some(1)) :
             ip \in IdProfiles}
    \cup {OrderRow(Null, T0, Null, Null, Null, Null, Null, Null)}

Frames(universe) == {NumberOrders(f) : f \in SeqsUpTo(universe, MaxRows)}

\* Date texts handed to get_orders_by_date, each with the date it names
\* (Null when it names none).  The leading zero of %m and %d is optional.
DateInputs ==
    {[text |-> <<"2", "0", "2", "2", "-", "0", "1", "-", "0", "1">>, ymd |-> <<2022, 1, 1>>],
     [text |-> <<"2", "0", "2", "2", "-", "0", "1", "-", "0", "2">>, ymd |-> <<2022, 1, 2>>],
     [text |-> <<"2", "0", "2", "2", "-", "1", "-", "3">>, ymd |-> <<2022, 1, 3>>],
     [text |-> <<"2", "0", "2", "2", "-", "1", "3", "-", "0", "1">>, ymd |-> Null],
     [text |-> <<"2", "0", "2", "2", "-", "0", "2", "-", "3", "0">>, ymd |-> Null],
     [text |-> <<"0", "1", "/", "0", "2", "/", "2", "0", "2", "2">>, ymd |-> Null]}

IdInputs(kind) == {kind \o "_1", kind \o "_2", kind \o "_9"}

(***************************************************************************)
(* The library functions as operations on a frame.  None changes the frame *)
(* it is given.  A run of a library specification is one call on one       *)
(* frame.                                                                  *)
(***************************************************************************)
LibraryCall == call.op = "none" /\ UNCHANGED <<files, csv, db, df, steps>>

GetCustomerSpending ==
    /\ LibraryCall
    /\ \E r \in get_customer_spending(df) : ret' = Returned(r)
    /\ call' = [op |-> "get_customer_spending"]

GetTopCustomers ==
    \E n \in (-1)..MaxN :
        /\ LibraryCall
        /\ \E r \in get_top_customers(df, n) : ret' = Returned(r)
        /\ call' = [op |-> "get_top_customers", n |-> n]

GetProductSalesAnalysis ==
    /\ LibraryCall
    /\ \E r \in get_product_sales_analysis(df) : ret' = Returned(r)
    /\ call' = [op |-> "get_product_sales_analysis"]

GetOrdersByDate ==
    \E s \in DateInputs, e \in DateInputs :
        /\ LibraryCall
        /\ ret' = get_orders_by_date(df, s.text, e.text)
        /\ call' = [op |-> "get_orders_by_date", start |-> s, end |-> e]

GetOrdersByCustomer ==
    \E id \in IdInputs("cust") :
        /\ LibraryCall
        /\ ret' = Returned(get_orders_by_customer(df, id))
        /\ call' = [op |-> "get_orders_by_customer", id |-> id]

GetOrdersBySeller ==
    \E id \in IdInputs("seller") :
        /\ LibraryCall
        /\ ret' = Returned(get_orders_by_seller(df, id))
        /\ call' = [op |-> "get_orders_by_seller", id |-> id]

GetOrdersByProduct ==
    \E id \in IdInputs("prod") :
        /\ LibraryCall
        /\ ret' = Returned(get_orders_by_product(df, id))
        /\ call' = [op |-> "get_orders_by_product", id |-> id]

InitLibrary(universe) ==
    /\ df \in Frames(universe)
    /\ files = NoFiles
    /\ csv = NoCsv
    /\ db = NoDb
    /\ call = [op |-> "none"]
    /\ ret = [kind |-> "none"]
    /\ steps = <<>>

InitCustomers == InitLibrary(CustomerRows)
NextCustomers == GetCustomerSpending \/ GetTopCustomers
SpecCustomers == InitCustomers /\ [][NextCustomers]_vars

InitProducts == InitLibrary(ProductRows)
NextProducts == GetProductSalesAnalysis
SpecProducts == InitProducts /\ [][NextProducts]_vars

InitFilter == InitLibrary(FilterInputRows)
NextFilter ==
    GetOrdersByDate \/ GetOrdersByCustomer \/ GetOrdersBySeller \/ GetOrdersByProduct
SpecFilter == InitFilter /\ [][NextFilter]_vars

\* Rows that differ in customer, seller, product, price, freight and quantity.
\* The first two are the orders of tests/test_api.py (price 100 and 200,
\* freight 10 and 20); the others tie with them or round; the last has no item.
SalesRows ==
    {FactRow(Null, Some("cust_1"), T0, Some(100000), Some(10000), Some("prod_1"),
             Some("category_1"), Some("category_1_en"), Some("seller_1"), Some(1)),
     FactRow(Null, Some("cust_2"), T0, Some(200000), Some(20000), Some("prod_2"),
             Some("category_2"), Some("category_2_en"), Some("seller_2"), Some(2)),
     FactRow(Null, Some("cust_2"), T0, Some(100000), Some(10000), Some("prod_2"),
             Some("category_2"), Some("category_2_en"), Some("seller_1"), Some(1)),
     FactRow(Null, Some("cust_1"), T0, Some(1004), Some(507), Some("prod_1"),
             Some("category_1"), Some("category_1_en"), Some("seller_2"), Some(3)),
     FactRow(Null, Some("cust_1"), T0, Null, Null, Null, Null, Null, Null, Null)}

\* get_sales_analysis takes the first row of each ranking: the frame has rows.
GetSalesAnalysis ==
    /\ LibraryCall
    /\ df # <<>>
    /\ \E r \in get_sales_analysis(df) : ret' = Returned(r)
    /\ call' = [op |-> "get_sales_analysis"]

InitSales == InitLibrary(SalesRows)
NextSales == GetSalesAnalysis
SpecSales == InitSales /\ [][NextSales]_vars

(***************************************************************************)
(* Bounded raw inputs.  Well-formed: customer_id, product_id, seller_id,   *)
(* the translated category name and order_id are keys of their tables.     *)
(* Some references dangle: customer 9, product_3, seller_9 and the         *)
(* translation of category_2 do not exist.                                 *)
(***************************************************************************)
CustomersTable ==
    <<[customer_id |-> Some("1"), customer_unique_id |-> Some("unique_1"),
       customer_city |-> Some("city_1")],
      [customer_id |-> Some("2"), customer_unique_id |-> Some("unique_2"),
       customer_city |-> Some("city_2")]>>

ProductsTable ==
    <<[product_id |-> Some("product_1"), product_category_name |-> Some("category_1")],
      [product_id |-> Some("product_2"), product_category_name |-> Some("category_2")]>>

SellersTable ==
    <<[seller_id |-> Some("seller_1"), seller_city |-> Some("seller_city_1")],
      [seller_id |-> Some("seller_2"), seller_city |-> Some("seller_city_2")]>>

TranslationTable ==
    <<[product_category_name |-> Some("category_1"),
       product_category_name_english |-> Some("English Category 1")]>>

RawOrder(oid, cid, day, hour) ==
    [order_id |-> Some(oid), customer_id |-> Some(cid),
     order_purchase_timestamp |-> Some(Timestamp(2022, 1, day, hour))]

RawOrderRows ==
    {RawOrder("order_1", "1", 1, 10), RawOrder("order_2", "2", 2, 11),
     RawOrder("order_3", "9", 3, 0)}

\* Orders tables: order_id is a key.
OrdersTables ==
    {t \in SeqsUpTo(RawOrderRows, MaxOrders) :
        \A i, j \in 1..Len(t) : t[i].order_id = t[j].order_id => i = j}

RawItem(oid, pid, sid, price, freight) ==
    [order_id |-> Some(oid), order_item_id |-> Some(1), seller_id |-> Some(sid),
     price |-> Some(price), freight_value |-> Some(freight), product_id |-> Some(pid)]

RawItemRows ==
    {RawItem("order_1", "product_1", "seller_1", 1004, 507),
     RawItem("order_1", "product_2", "seller_2", 2511, 300),
     RawItem("order_2", "product_2", "seller_2", 2511, 300),
     RawItem("order_2", "product_3", "seller_9", 999, 100)}

\* order_item_id numbers the rows of the file.
OrderItemsTables ==
    {[i \in 1..Len(t) |-> [t[i] EXCEPT !.order_item_id = Some(i)]] :
        t \in SeqsUpTo(RawItemRows, MaxItems)}

RawPaymentRows ==
    {[order_id |-> Some("order_1"), payment_installments |-> Some(1),
      payment_value |-> Some(1511)],
     [order_id |-> Some("order_1"), payment_installments |-> Some(3),
      payment_value |-> Some(2000)]}

\* Scores 5 and 2: their mean, 3.5, is cut to 3 and would round to 4.
RawReviewRows ==
    {[order_id |-> Some("order_1"), review_score |-> Some(5)],
     [order_id |-> Some("order_1"), review_score |-> Some(2)]}

RawInputs ==
    {[customers |-> CustomersTable,
      orders |-> o,
      order_items |-> it,
      payments |-> pay,
      reviews |-> rev,
      products |-> ProductsTable,
      sellers |-> SellersTable,
      product_translation |-> TranslationTable] :
        o \in OrdersTables, it \in OrderItemsTables,
        pay \in SeqsUpTo(RawPaymentRows, 2), rev \in SeqsUpTo(RawReviewRows, 2)}

\* The raw input of tests/test_database.py, create_mock_data, cut to the bounds.
SampleCsv ==
    [customers |-> CustomersTable,
     orders |-> <<RawOrder("order_1", "1", 1, 10), RawOrder("order_2", "2", 2, 11)>>,
     order_items |-> <<RawItem("order_1", "product_1", "seller_1", 1004, 507),
                       [RawItem("order_1", "product_2", "seller_2", 2511, 300)
                           EXCEPT !.order_item_id = Some(2)],
                       RawItem("order_2", "product_2", "seller_2", 2511, 300)>>,
     payments |-> <<[order_id |-> Some("order_1"), payment_installments |-> Some(1),
                     payment_value |-> Some(1511)]>>,
     reviews |-> <<[order_id |-> Some("order_1"), review_score |-> Some(5)]>>,
     products |-> ProductsTable,
     sellers |-> SellersTable,
     product_translation |-> TranslationTable]

AllFiles == Range(SourceKeys)

(***************************************************************************)
(* load_csv_data and process_data as operations.                           *)
(***************************************************************************)
LoadCsvData ==
    /\ call.op = "none"
    /\ ret' = load_csv_data(files, csv)
    /\ call' = [op |-> "load_csv_data"]
    /\ UNCHANGED <<files, csv, db, df, steps>>

InitIngest ==
    /\ files \in SUBSET AllFiles
    /\ csv = SampleCsv
    /\ db = NoDb
    /\ df = <<>>
    /\ call = [op |-> "none"]
    /\ ret = [kind |-> "none"]
    /\ steps = <<>>

NextIngest == LoadCsvData
SpecIngest == InitIngest /\ [][NextIngest]_vars

ProcessData ==
    /\ call.op = "none"
    /\ \E r \in process_data(csv) : ret' = Returned(r)
    /\ call' = [op |-> "process_data"]
    /\ UNCHANGED <<files, csv, db, df, steps>>

InitTransform ==
    /\ files = AllFiles
    /\ csv \in RawInputs
    /\ db = NoDb
    /\ df = <<>>
    /\ call = [op |-> "none"]
    /\ ret = [kind |-> "none"]
    /\ steps = <<>>

\* process_data run once more on the same raw inputs.
RerunProcessData ==
    /\ call = [op |-> "process_data"]
    /\ \E r \in process_data(csv) : ret' = Returned(r)
    /\ call' = [op |-> "process_data", rerun |-> TRUE]
    /\ UNCHANGED <<files, csv, db, df, steps>>

NextTransform == ProcessData \/ RerunProcessData
SpecTransform == InitTransform /\ [][NextTransform]_vars

(***************************************************************************)
(* The program: the pipeline, main and the request handlers on one store.  *)
(***************************************************************************)
\* The n of a request, with the number it stands for (Null: not a number).
NInputs ==
    {[arg |-> Null, n |-> Some(DefaultTopN)],
     [arg |-> Some(<<>>), n |-> Null],
     [arg |-> Some(<<"a", "b", "c">>), n |-> Null],
     [arg |-> Some(<<"-", "1">>), n |-> Some(-1)],
     [arg |-> Some(<<"0">>), n |-> Some(0)]}
    \cup {[arg |-> Some(<<DigitChars[k + 1]>>), n |-> Some(k)] : k \in 1..MaxN}

IdArgs(kind) == {Null, Some(""), Some(kind \o "_1"), Some(kind \o "_9")}

\* A date parameter: absent, empty, or one of the date texts.
DateArgs ==
    {[arg |-> Null, ymd |-> Null], [arg |-> Some(<<>>), ymd |-> Null]}
    \cup {[arg |-> Some(i.text), ymd |-> i.ymd] : i \in DateInputs}

Apply(o) ==
    /\ ret' = o.ret
    /\ db' = o.db
    /\ steps' = o.steps
    /\ UNCHANGED <<files, csv, df>>

\* The call record of an operation on the store notes the tables the store
\* held when the operation began.
DataPipeline ==
    /\ \E o \in data_pipeline(files, csv, db) : Apply(o)
    /\ call' = [op |-> "data_pipeline", tables_before |-> DOMAIN db.tables]

Main ==
    /\ \E o \in main(files, csv, db) : Apply(o)
    /\ call' = [op |-> "main", tables_before |-> DOMAIN db.tables]

CreateEngine ==
    /\ \E o \in create_engine(files, csv, db) : Apply(o)
    /\ call' = [op |-> "create_engine"]

TopCustomers ==
    \E i \in NInputs :
        /\ \E o \in top_customers(i.arg, files, csv, db) : Apply(o)
        /\ call' = [op |-> "top_customers", n |-> i.n, arg |-> i.arg]

OrdersByCustomer ==
    \E a \in IdArgs("unique") :
        /\ \E o \in orders_by_customer(a, files, csv, db) : Apply(o)
        /\ call' = [op |-> "orders_by_customer", id |-> a]

OrdersBySeller ==
    \E a \in IdArgs("seller") :
        /\ \E o \in orders_by_seller(a, files, csv, db) : Apply(o)
        /\ call' = [op |-> "orders_by_seller", id |-> a]

OrdersByProduct ==
    \E a \in IdArgs("product") :
        /\ \E o \in orders_by_product(a, files, csv, db) : Apply(o)
        /\ call' = [op |-> "orders_by_product", id |-> a]

OrdersByDate ==
    \E s \in DateArgs, e \in DateArgs :
        /\ \E o \in orders_by_date(s.arg, e.arg, files, csv, db) : Apply(o)
        /\ call' = [op |-> "orders_by_date", start |-> s, end |-> e]

\* The raw input of an earlier day: one order, which the current input no
\* longer holds.
StaleCsv == [SampleCsv EXCEPT !.orders = <<RawOrder("order_3", "9", 3, 0)>>]

\* An operation that went through the stage.
WentThrough(o, stage) == \E i \in 1..Len(o.steps) : o.steps[i] = stage

\* The stores an earlier complete run left, the database in good condition:
\* the pipeline committed its insert, main returned.
EarlierStores ==
    {o.db : o \in {p \in data_pipeline(AllFiles, SampleCsv, NoDb) :
                      WentThrough(p, "session.commit")}}
    \cup {o.db : o \in {m \in main(AllFiles, StaleCsv, NoDb) : m.ret.kind = "returned"}}

\* The source directory is complete or lacks files; the store is absent, or
\* was filled by an earlier run of the pipeline on the complete directory, or
\* was left by an earlier run of main on the input of that day.
Init ==
    /\ files \in {AllFiles, AllFiles \ {"customers"}, AllFiles \ {"product_translation"}, {}}
    /\ csv = SampleCsv
    /\ db \in {NoDb} \cup EarlierStores
    /\ df = <<>>
    /\ call = [op |-> "none"]
    /\ ret = [kind |-> "none"]
    /\ steps = <<>>

Next ==
    \/ DataPipeline
    \/ Main
    \/ CreateEngine
    \/ TopCustomers
    \/ OrdersByCustomer
    \/ OrdersBySeller
    \/ OrdersByProduct
    \/ OrdersByDate

Spec == Init /\ [][Next]_vars

(***************************************************************************)
(* The operations on the store, on inputs and databases that make them     *)
(* fail: a raw table without a column process_data names, a database whose *)
(* writes meet an exception.                                               *)
(***************************************************************************)
\* customers.csv without its customer_id column.
MalformedCsv ==
    [SampleCsv EXCEPT !.customers =
        <<[customer_unique_id |-> Some("unique_1"), customer_city |-> Some("city_1")]>>]

\* setup_database called on its own (tests/test_database.py, the setup_test_db
\* fixture).
SetupDatabase ==
    /\ db' = setup_database(db)
    /\ call' = [op |-> "setup_database", tables_before |-> DOMAIN db.tables]
    /\ ret' = Returned(Null)
    /\ steps' = <<"setup_database">>
    /\ UNCHANGED <<files, csv, df>>

\* insert_data_into_db called with a session on a database that was just set
\* up, its orders table empty (tests/test_database.py,
\* test_insert_data_into_db).
InsertDataIntoDb ==
    /\ HasTable(db, "orders")
    /\ db.tables["orders"] = <<>>
    /\ HasColumns(csv)
    /\ \E final_orders_df \in process_data(csv) :
          LET ins == insert_data_into_db(db, final_orders_df)
          IN  /\ db' = ins.db
              /\ steps' = ins.steps
              /\ call' = [op |-> "insert_data_into_db", rows |-> final_orders_df,
                          orders_before |-> db.tables["orders"]]
    /\ ret' = Returned(Null)
    /\ UNCHANGED <<files, csv, df>>

AnalyzeAndLoad ==
    /\ \E o \in analyze_and_load(db, "orders") : Apply(o)
    /\ call' = [op |-> "analyze_and_load", tables_before |-> DOMAIN db.tables]

InitStore ==
    /\ files \in {AllFiles, AllFiles \ {"customers"}, {}}
    /\ csv \in {SampleCsv, MalformedCsv}
    /\ db \in {InCondition(d, i, s) :
                  d \in {NoDb} \cup EarlierStores, i \in InsertFaults, s \in SaveFaults}
    /\ df = <<>>
    /\ call = [op |-> "none"]
    /\ ret = [kind |-> "none"]
    /\ steps = <<>>

NextStore ==
    \/ DataPipeline
    \/ Main
    \/ CreateEngine
    \/ SetupDatabase
    \/ InsertDataIntoDb
    \/ AnalyzeAndLoad

SpecStore == InitStore /\ [][NextStore]_vars

(***************************************************************************)
(* Properties.                                                             *)
(***************************************************************************)
\* The rows of the frame whose cell in col is key (a null key: the null cells).
RowsWith(col, key) == {i \in 1..Len(df) : df[i][col] = key}

\* The sum of the present cells of col over the rows I of the frame.
RECURSIVE TotalOver(_, _)
TotalOver(I, col) ==
    IF I = {} THEN 0
    ELSE LET i == CHOOSE x \in I : TRUE
         IN  (IF df[i][col] = Null THEN 0 ELSE df[i][col][1]) + TotalOver(I \ {i}, col)

\* r is x rounded to 2 decimals: a whole number of hundredths nearest to x.
IsRoundedTo2(r, x) == r % 10 = 0 /\ r - x <= 5 /\ x - r <= 5

\* C2: get_product_sales_analysis emits, for every product, the English
\* category name when it is present and otherwise the original-language
\* product_category_name; product_category is null only when both are null.
C2_CategoryResolved ==
    call.op = "get_product_sales_analysis" =>
        \A j \in 1..Len(ret.value) :
            LET I == RowsWith("product_id", ret.value[j].product_id)
                first == CHOOSE i \in I : \A i2 \in I : i <= i2
            IN  ret.value[j].product_category =
                    (IF df[first].product_category_name_english # Null
                     THEN df[first].product_category_name_english
                     ELSE df[first].product_category_name)

\* C5: get_customer_spending emits one row per customer_unique_id of the
\* frame, whose total_orders_value is the sum of price over the rows of that
\* customer rounded to 2 decimals and whose order_count is the number of
\* those rows.
C5_CustomerSpendingSums ==
    call.op = "get_customer_spending" =>
        /\ ret.kind = "returned"
        /\ \A k \in {df[i].customer_unique_id : i \in 1..Len(df)} :
              \E j \in 1..Len(ret.value) :
                  /\ ret.value[j].customer_unique_id = k
                  /\ \A j2 \in 1..Len(ret.value) :
                        ret.value[j2].customer_unique_id = k => j2 = j
                  /\ IsRoundedTo2(ret.value[j].total_orders_value[1],
                                  TotalOver(RowsWith("customer_unique_id", k), "price"))
                  /\ ret.value[j].order_count[1]
                        = Cardinality(RowsWith("customer_unique_id", k))

\* C5 witness: a customer with several orders whose summed price is not a
\* whole number of hundredths, in a frame of several customers.
C5_Witness ==
    /\ call.op = "get_customer_spending"
    /\ Len(ret.value) >= 2
    /\ \E k \in {df[i].customer_unique_id : i \in 1..Len(df)} :
          /\ Cardinality(RowsWith("customer_unique_id", k)) >= 2
          /\ TotalOver(RowsWith("customer_unique_id", k), "price") % 10 # 0

\* C6: get_top_customers(table, n) with n > 0 returns at most n rows, sorted
\* descending by total_orders_value; every returned (customer, total) pair is
\* in the full result of get_customer_spending on the same table, and no
\* customer left out has a strictly greater total than a returned one.
C6_TopCustomers ==
    (call.op = "get_top_customers" /\ call.n > 0) =>
        LET top == ret.value
        IN  /\ Len(top) <= call.n
            /\ \A i \in 1..(Len(top) - 1) :
                  top[i].total_orders_value[1] >= top[i + 1].total_orders_value[1]
            /\ \A full \in get_customer_spending(df) :
                  /\ \A i \in 1..Len(top) : \E j \in 1..Len(full) :
                        /\ full[j].customer_unique_id = top[i].customer_unique_id
                        /\ full[j].total_orders_value = top[i].total_orders_value
                  /\ \A j \in 1..Len(full) :
                        (\A i \in 1..Len(top) :
                             top[i].customer_unique_id # full[j].customer_unique_id)
                        => \A i \in 1..Len(top) :
                               full[j].total_orders_value[1] <= top[i].total_orders_value[1]

\* C6 witness: more customers than n, so the ranking cuts, and the returned
\* rows differ in total.
C6_Witness ==
    /\ call.op = "get_top_customers"
    /\ call.n >= 2
    /\ Len(ret.value) = call.n
    /\ Cardinality({df[i].customer_unique_id : i \in 1..Len(df)}) > call.n
    /\ ret.value[1].total_orders_value[1] > ret.value[2].total_orders_value[1]

\* The midnight that a well-formed date input names.
DateOf(input) == ((input.ymd[1] * 12 + (input.ymd[2] - 1)) * 31 + (input.ymd[3] - 1)) * 24

\* C8: get_orders_by_date(table, start, end) returns exactly the rows with
\* start <= order_purchase_timestamp <= end, both bounds included.
C8_DateRangeInclusive ==
    (call.op = "get_orders_by_date" /\ call.start.ymd # Null /\ call.end.ymd # Null) =>
        /\ ret.kind = "returned"
        /\ Len(ret.value) = Cardinality(Range(ret.value))
        /\ Range(ret.value) \subseteq Range(df)
        /\ \A i \in 1..Len(df) :
              df[i] \in Range(ret.value)
              <=> /\ df[i].order_purchase_timestamp # Null
                  /\ DateOf(call.start) <= df[i].order_purchase_timestamp[1]
                  /\ df[i].order_purchase_timestamp[1] <= DateOf(call.end)

\* C8 witness: a returned row bought exactly at start, another exactly at end,
\* and a row of the frame that is left out.
C8_Witness ==
    /\ call.op = "get_orders_by_date"
    /\ ret.kind = "returned"
    /\ DateOf(call.start) < DateOf(call.end)
    /\ \E r \in Range(ret.value) : r.order_purchase_timestamp = <<DateOf(call.start)>>
    /\ \E r \in Range(ret.value) : r.order_purchase_timestamp = <<DateOf(call.end)>>
    /\ Len(ret.value) < Len(df)

IdFilterColumn(op) ==
    CASE op = "get_orders_by_customer" -> "customer_unique_id"
      [] op = "get_orders_by_seller" -> "seller_id"
      [] op = "get_orders_by_product" -> "product_id"

\* C10: get_orders_by_customer / _seller / _product return exactly the rows
\* whose customer_unique_id / seller_id / product_id equals the given id, in
\* input order; with no match the call still returns (an empty frame).
C10_IdFilters ==
    call.op \in {"get_orders_by_customer", "get_orders_by_seller", "get_orders_by_product"} =>
        LET match == RowsWith(IdFilterColumn(call.op), <<call.id>>)
        IN  /\ ret.kind = "returned"
            /\ Len(ret.value) = Cardinality(match)
            /\ \A j \in 1..Len(ret.value) : \E i \in match : ret.value[j] = df[i]
            /\ \A j \in 1..(Len(ret.value) - 1) :
                  ret.value[j].order_id[1] < ret.value[j + 1].order_id[1]

\* C10 witness: a seller with several orders among orders of other sellers.
C10_Witness ==
    /\ call.op = "get_orders_by_seller"
    /\ Len(ret.value) >= 2
    /\ Len(ret.value) < Len(df)

\* An id without any order: the call returns the empty frame.
C10_EmptyIsSuccess ==
    /\ call.op = "get_orders_by_customer"
    /\ Len(df) > 0
    /\ ret = [kind |-> "returned", value |-> <<>>]

\* C1: the OrderFact table returned by process_data has exactly one row per
\* order_id of the raw Orders table: no order is dropped, none is duplicated.
C1_OneRowPerOrder ==
    call.op = "process_data" =>
        /\ Len(ret.value) = Cardinality({csv.orders[i].order_id : i \in 1..Len(csv.orders)})
        /\ \A i \in 1..Len(csv.orders) :
              Cardinality({j \in 1..Len(ret.value) :
                              ret.value[j].order_id = csv.orders[i].order_id}) = 1

\* C1 witness: two orders, one with several item rows and several payments,
\* the other without item rows.
C1_Witness ==
    /\ call.op = "process_data"
    /\ Len(csv.orders) = 2
    /\ \E i \in 1..2 :
          /\ Cardinality({j \in 1..Len(csv.order_items) :
                             csv.order_items[j].order_id = csv.orders[i].order_id}) >= 2
          /\ Cardinality({j \in 1..Len(csv.payments) :
                             csv.payments[j].order_id = csv.orders[i].order_id}) >= 2
    /\ \E i \in 1..2 : \A j \in 1..Len(csv.order_items) :
          csv.order_items[j].order_id # csv.orders[i].order_id
    /\ Len(ret.value) = 2

\* C4: load_csv_data either returns a mapping that holds all 8 entity tables
\* or raises FileNotFoundError, which it does exactly when a file is absent;
\* it never returns fewer than 8 tables.
C4_AllOrNothingLoad ==
    call.op = "load_csv_data" =>
        IF files = AllFiles
        THEN ret.kind = "returned" /\ DOMAIN ret.value = AllFiles
                /\ \A k \in AllFiles : ret.value[k] = csv[k]
        ELSE ret = [kind |-> "raised", error |-> "FileNotFoundError"]

\* C4 witness: the first files are present and were read, a later one is absent.
C4_Witness ==
    /\ call.op = "load_csv_data"
    /\ {"customers", "orders", "order_items"} \subseteq files
    /\ "sellers" \notin files
    /\ ret.kind = "raised"

\* C3: when a required source file is absent the pipeline run aborts and the
\* failure reaches the caller: data_pipeline and main end by raising, without
\* database setup, insertion or analytics, and without reporting completion.
C3_MissingSourceAborts ==
    (call.op \in {"data_pipeline", "main"} /\ files # AllFiles) =>
        /\ ret.kind = "raised"
        /\ \A i \in 1..Len(steps) :
              steps[i] \notin {"setup_database", "insert_data_into_db", "analyze_and_load",
                               "log.info: Data pipeline completed successfully."}

\* C7: a request with n <= 0 for the top-N ranking, or with an absent or empty
\* id for a lookup by customer, seller or product, is answered with an input
\* error (400) before the engine is created, a table loaded or anything
\* computed; it never gets a success.
C7_InvalidInputRejected ==
    /\ (call.op = "top_customers" /\ call.n # Null /\ call.n[1] <= 0)
          => (ret.status = 400 /\ ret.body = <<>> /\ steps = <<>>)
    /\ (call.op \in {"orders_by_customer", "orders_by_seller", "orders_by_product"}
        /\ (call.id = Null \/ call.id = <<"">>))
          => (ret.status = 400 /\ ret.body = <<>> /\ steps = <<>>)

\* C7 witness: n = 0 is rejected although the orders table is there to rank.
C7_Witness ==
    /\ call.op = "top_customers"
    /\ call.n = <<0>>
    /\ HasTable(db, "orders")
    /\ Len(db.tables["orders"]) > 0
    /\ ret.status = 400

\* A date parameter that is given but names no date.
BadDate(a) == a.arg # Null /\ a.arg # <<<<>>>> /\ a.ymd = Null
GivenDate(a) == a.arg # Null /\ a.arg # <<<<>>>>

\* C9: a start or end date that does not match %Y-%m-%d makes the date-range
\* request fail: the answer is an error, the ValueError of the parse whenever
\* the orders table could be loaded, never a success; and the failure leaves
\* an existing store as it was, so later requests are served as before.
C9_BadDateSurfaced ==
    [][(/\ call'.op = "orders_by_date"
        /\ GivenDate(call'.start) /\ GivenDate(call'.end)
        /\ (BadDate(call'.start) \/ BadDate(call'.end)))
       => /\ ret'.status = 500
          /\ ret'.body = <<>>
          /\ HasTable(db', "orders") => ret'.error = "ValueError"
          /\ db.exists => db' = db]_vars

\* C9 witness: a well-formed start and a malformed end on a filled store.
C9_Witness ==
    /\ call.op = "orders_by_date"
    /\ GivenDate(call.start) /\ ~BadDate(call.start)
    /\ BadDate(call.end)
    /\ HasTable(db, "orders")
    /\ Len(db.tables["orders"]) > 0
    /\ ret.status = 500
    /\ ret.error = "ValueError"

\* The keys of col in the frame, the rounded price total of one key and the
\* number of its orders.
KeysOf(col) == {df[i][col] : i \in 1..Len(df)}

GroupTotal(col, key) == Round2(TotalOver(RowsWith(col, key), "price"))

GroupOrderCount(col, key) == Cardinality({i \in RowsWith(col, key) : df[i].order_id # Null})

\* x is the mean of the present cells of col, rounded to 2 decimals (null when
\* no cell is present).
IsMeanOf(x, col) ==
    LET I == {i \in 1..Len(df) : df[i][col] # Null}
    IN  IF I = {} THEN x = Null
        ELSE x # Null /\ IsRoundedTo2(Val(x), TotalOver(I, col) \div Cardinality(I))

\* The two orders of tests/test_api.py.
SalesExample ==
    NumberOrders(
        <<FactRow(Null, Some("cust_1"), T0, Some(100000), Some(10000), Some("prod_1"),
                  Some("category_1"), Some("category_1_en"), Some("seller_1"), Some(1)),
          FactRow(Null, Some("cust_2"), T0, Some(200000), Some(20000), Some("prod_2"),
                  Some("category_2"), Some("category_2_en"), Some("seller_2"), Some(2))>>)

\* C11: get_sales_analysis returns exactly one row; top_seller is a seller and
\* top_customer a customer whose summed price no other exceeds, most_sold_product
\* a product that no other exceeds in number of orders, avg_order_value and
\* avg_shipping_fee the means of price and freight_value; on the two-order
\* example it reports 150, 15, count 1, cust_2 with 200 and seller_2 with 200.
C11_SalesSnapshot ==
    call.op = "get_sales_analysis" =>
        /\ Len(ret.value) = 1
        /\ LET s == ret.value[1]
           IN  /\ s.top_seller_id \in KeysOf("seller_id")
               /\ s.top_seller_sales = Some(GroupTotal("seller_id", s.top_seller_id))
               /\ \A k \in KeysOf("seller_id") :
                      GroupTotal("seller_id", k) <= Val(s.top_seller_sales)
               /\ s.top_customer_id \in KeysOf("customer_unique_id")
               /\ s.top_customer_spent =
                      Some(GroupTotal("customer_unique_id", s.top_customer_id))
               /\ \A k \in KeysOf("customer_unique_id") :
                      GroupTotal("customer_unique_id", k) <= Val(s.top_customer_spent)
               /\ s.most_sold_product_id \in KeysOf("product_id")
               /\ s.most_sold_product_count =
                      Some(GroupOrderCount("product_id", s.most_sold_product_id))
               /\ \A k \in KeysOf("product_id") :
                      GroupOrderCount("product_id", k) <= Val(s.most_sold_product_count)
               /\ IsMeanOf(s.avg_order_value, "price")
               /\ IsMeanOf(s.avg_shipping_fee, "freight_value")
               /\ df = SalesExample =>
                      /\ s.avg_order_value = Some(150000)
                      /\ s.avg_shipping_fee = Some(15000)
                      /\ s.most_sold_product_count = Some(1)
                      /\ s.top_customer_id = Some("cust_2")
                      /\ s.top_customer_spent = Some(200000)
                      /\ s.top_seller_id = Some("seller_2")
                      /\ s.top_seller_sales = Some(200000)

\* The snapshot of the two-order example has been computed.
C11_Witness ==
    /\ call.op = "get_sales_analysis"
    /\ df = SalesExample
    /\ ret.kind = "returned"
    /\ ret.value[1].avg_order_value = Some(150000)
    /\ ret.value[1].top_seller_id = Some("seller_2")

\* The key of col whose group comes first in the frame among those that no
\* other exceeds on the ranking metric.
RankingMetric(col, key) ==
    IF col = "product_id" THEN GroupOrderCount(col, key) ELSE GroupTotal(col, key)

FirstEncounteredTop(col) ==
    LET best == {i \in 1..Len(df) :
                    \A k \in KeysOf(col) : RankingMetric(col, k) <= RankingMetric(col, df[i][col])}
    IN  df[CHOOSE i \in best : \A j \in best : i <= j][col]

\* C12: when sellers, customers or products tie on the ranking metric,
\* get_sales_analysis picks the one whose group is first encountered in the
\* rows of the fact table, so one fact table always gives one answer.
C12_StableTieBreak ==
    call.op = "get_sales_analysis" =>
        /\ ret.value[1].top_seller_id = FirstEncounteredTop("seller_id")
        /\ ret.value[1].top_customer_id = FirstEncounteredTop("customer_unique_id")
        /\ ret.value[1].most_sold_product_id = FirstEncounteredTop("product_id")

\* The first row of the frame whose cell in col is key.
FirstRowWith(col, key) == CHOOSE i \in RowsWith(col, key) : \A j \in RowsWith(col, key) : i <= j

\* The result of get_product_sales_analysis is in descending order of
\* total_sold (the part of C13 that does not depend on ties).
ProductSalesDescending ==
    call.op = "get_product_sales_analysis" =>
        \A j \in 1..(Len(ret.value) - 1) :
            Val(ret.value[j].total_sold) >= Val(ret.value[j + 1].total_sold)

\* C13: the result of get_product_sales_analysis is sorted descending by
\* total_sold, and products with equal total_sold appear in the order in
\* which their product_id is first encountered in the input table.
C13_SortedStable ==
    call.op = "get_product_sales_analysis" =>
        \A j \in 1..(Len(ret.value) - 1) :
            /\ Val(ret.value[j].total_sold) >= Val(ret.value[j + 1].total_sold)
            /\ ret.value[j].total_sold = ret.value[j + 1].total_sold =>
                   FirstRowWith("product_id", ret.value[j].product_id)
                       < FirstRowWith("product_id", ret.value[j + 1].product_id)

\* C14: re-running process_data on unchanged raw inputs produces an identical
\* OrderFact table: same rows, same row order, same values in every column.
C14_RerunIdentical ==
    [][call.op = "process_data" /\ call'.op = "process_data" => ret' = ret]_vars

\* C14 witness: process_data has run twice on two orders that both have item
\* rows (two groups, which group_by may emit in either order) and on an order
\* with several payments.
C14_Witness ==
    /\ call = [op |-> "process_data", rerun |-> TRUE]
    /\ Len(csv.orders) = 2
    /\ \A i \in 1..2 : \E j \in 1..Len(csv.order_items) :
          csv.order_items[j].order_id = csv.orders[i].order_id
    /\ Len(csv.payments) = 2
    /\ Len(ret.value) = 2
    /\ ret.value[1].product_id # Null /\ ret.value[2].product_id # Null

\* The rows of a raw table that belong to an order, the first of them and the
\* sum of one of their columns.
RawRowsOf(table, oid) == {j \in 1..Len(csv[table]) : csv[table][j].order_id = oid}

FirstOf(I) == CHOOSE i \in I : \A j \in I : i <= j

RECURSIVE RawSum(_, _, _)
RawSum(table, I, col) ==
    IF I = {} THEN 0
    ELSE LET i == CHOOSE x \in I : TRUE
         IN  (IF csv[table][i][col] = Null THEN 0 ELSE csv[table][i][col][1])
             + RawSum(table, I \ {i}, col)

\* The cell of col in the row of a raw table whose key column holds key; null
\* when no row does.
Lookup(table, keycol, key, col) ==
    LET M == {k \in 1..Len(csv[table]) : key # Null /\ csv[table][k][keycol] = key}
    IN  IF M = {} THEN Null ELSE csv[table][FirstOf(M)][col]

\* The rows of the fact table for the i-th order of the raw Orders table.
FactRowsOf(i) == {j \in 1..Len(ret.value) : ret.value[j].order_id = csv.orders[i].order_id}

\* C17: for every order with at least one item row, price and freight_value
\* are the sums over its item rows, item_quantity is the number of its item
\* rows, and product_id, product_category_name and seller_id are those of its
\* first item row in source order; payment_value is the sum over the order's
\* payment rows and payment_installments that of its first payment row.
C17_OrderAggregates ==
    call.op = "process_data" =>
        \A i \in 1..Len(csv.orders) :
            LET oid == csv.orders[i].order_id
                I == RawRowsOf("order_items", oid)
                P == RawRowsOf("payments", oid)
            IN  /\ FactRowsOf(i) # {}
                /\ \A j \in FactRowsOf(i) :
                      LET r == ret.value[j]
                      IN  /\ I # {} =>
                                /\ r.price = Some(RawSum("order_items", I, "price"))
                                /\ r.freight_value =
                                       Some(RawSum("order_items", I, "freight_value"))
                                /\ r.item_quantity = Some(Cardinality(I))
                                /\ r.product_id = csv.order_items[FirstOf(I)].product_id
                                /\ r.seller_id = csv.order_items[FirstOf(I)].seller_id
                                /\ r.product_category_name =
                                       Lookup("products", "product_id",
                                              csv.order_items[FirstOf(I)].product_id,
                                              "product_category_name")
                          /\ P # {} =>
                                /\ r.payment_value = Some(RawSum("payments", P, "payment_value"))
                                /\ r.payment_installments =
                                       csv.payments[FirstOf(P)].payment_installments

\* C17 witness: an order with two item rows of different products and sellers
\* and two payments with different installments has been aggregated.
C17_Witness ==
    /\ call.op = "process_data"
    /\ \E i \in 1..Len(csv.orders) :
          LET I == RawRowsOf("order_items", csv.orders[i].order_id)
              P == RawRowsOf("payments", csv.orders[i].order_id)
          IN  /\ Cardinality(I) = 2
              /\ \E a, b \in I : /\ csv.order_items[a].product_id # csv.order_items[b].product_id
                                 /\ csv.order_items[a].seller_id # csv.order_items[b].seller_id
              /\ Cardinality(P) = 2
              /\ \E a, b \in P :
                    csv.payments[a].payment_installments # csv.payments[b].payment_installments
              /\ \E j \in FactRowsOf(i) : ret.value[j].item_quantity = Some(2)

\* C18: an order with zero item rows still appears in the OrderFact table
\* with null (not zero) item fields; an order whose customer, payments,
\* reviews, seller or category translation is unmatched keeps its row with
\* nulls in the unmatched columns.
C18_UnmatchedIsNull ==
    call.op = "process_data" =>
        \A i \in 1..Len(csv.orders) :
            LET o == csv.orders[i]
            IN  /\ FactRowsOf(i) # {}
                /\ \A j \in FactRowsOf(i) :
                      LET r == ret.value[j]
                      IN  /\ RawRowsOf("order_items", o.order_id) = {} =>
                                /\ r.price = Null /\ r.freight_value = Null
                                /\ r.product_id = Null /\ r.product_category_name = Null
                                /\ r.seller_id = Null /\ r.item_quantity = Null
                          /\ Lookup("customers", "customer_id", o.customer_id, "customer_id") = Null
                                => r.customer_unique_id = Null /\ r.customer_city = Null
                          /\ RawRowsOf("payments", o.order_id) = {} =>
                                r.payment_installments = Null /\ r.payment_value = Null
                          /\ RawRowsOf("reviews", o.order_id) = {} => r.review_score = Null
                          /\ Lookup("sellers", "seller_id", r.seller_id, "seller_id") = Null
                                => r.seller_city = Null
                          /\ Lookup("product_translation", "product_category_name",
                                    r.product_category_name, "product_category_name") = Null
                                => r.product_category_name_english = Null

\* C18 witness: the fact table holds an order without items, customer,
\* payments or reviews, and an order whose seller is not in Sellers.
C18_Witness ==
    /\ call.op = "process_data"
    /\ \E j \in 1..Len(ret.value) :
          /\ ret.value[j].price = Null /\ ret.value[j].item_quantity = Null
          /\ ret.value[j].customer_unique_id = Null
          /\ ret.value[j].payment_value = Null /\ ret.value[j].review_score = Null
    /\ \E j \in 1..Len(ret.value) :
          /\ ret.value[j].seller_id # Null /\ ret.value[j].seller_city = Null
          /\ ret.value[j].product_category_name_english = Null

\* C19: for every order with at least one review row, review_score is the
\* mean of its review scores truncated toward zero to an integer, never
\* rounded to nearest.
C19_ReviewScoreTruncated ==
    call.op = "process_data" =>
        \A i \in 1..Len(csv.orders) :
            LET R == RawRowsOf("reviews", csv.orders[i].order_id)
                total == RawSum("reviews", R, "review_score")
            IN  R # {} =>
                    \A j \in FactRowsOf(i) :
                        /\ ret.value[j].review_score # Null
                        /\ Val(ret.value[j].review_score) * Cardinality(R) <= total
                        /\ total < (Val(ret.value[j].review_score) + 1) * Cardinality(R)

\* C19 witness: scores 5 and 2 (mean 3.5, which rounds to 4) give 3.
C19_Witness ==
    /\ call.op = "process_data"
    /\ Len(csv.reviews) = 2
    /\ {csv.reviews[1].review_score, csv.reviews[2].review_score} = {Some(5), Some(2)}
    /\ \E j \in 1..Len(ret.value) : ret.value[j].review_score = Some(3)

\* The four tables analyze_and_load writes, and the views of an orders table
\* that each may hold.
AnalysisTables == {"customers_analysis", "sellers_analysis", "products_analysis", "sales_analysis"}

ViewsOf(name, orders) ==
    CASE name = "customers_analysis" -> get_customer_spending(orders)
      [] name = "sellers_analysis" -> get_sales_per_seller(orders)
      [] name = "products_analysis" -> get_product_sales_analysis(orders)
      [] name = "sales_analysis" -> get_sales_analysis(orders)

\* C15: after analyze_and_load completes successfully, each of the four named
\* tables exists and holds exactly the view just computed from the current
\* orders table: a same-named prior table is fully overwritten.
C15_ViewsReplaced ==
    (call.op = "main" /\ ret.kind = "returned") =>
        \A name \in AnalysisTables :
            /\ HasTable(db, name)
            /\ db.tables[name] \in ViewsOf(name, db.tables["orders"])

\* C15 witness: main has completed on a store that already held the four
\* tables, written when the orders table held one other order.
C15_Witness ==
    /\ call.op = "main"
    /\ ret.kind = "returned"
    /\ AnalysisTables \subseteq call.tables_before
    /\ Len(db.tables["orders"]) = 2
    /\ Len(db.tables["customers_analysis"]) = 2
    /\ Len(db.tables["sales_analysis"]) = 1

\* The pipeline committed its insert and logged its completion.
PipelineSucceeded ==
    /\ call.op = "data_pipeline"
    /\ \E i \in 1..Len(steps) : steps[i] = "session.commit"
    /\ steps[Len(steps)] = "log.info: Data pipeline completed successfully."

\* C16: after any number of successful pipeline runs the persisted orders
\* table holds exactly one row per row of the most recently computed fact
\* table; rows of earlier runs never accumulate.
C16_OrdersRecreated ==
    PipelineSucceeded =>
        /\ HasTable(db, "orders")
        /\ db.tables["orders"] \in process_data(csv)

\* C16 witness: the pipeline has succeeded on a store whose orders table
\* existed before the run.
C16_Witness ==
    /\ PipelineSucceeded
    /\ "orders" \in call.tables_before
    /\ Len(db.tables["orders"]) = 2

\* C20: create_engine runs data_pipeline exactly when the database file is
\* absent, and when it then returns the orders table exists and is populated;
\* when the file is present it neither runs the pipeline nor changes the store.
C20_LazyStore ==
    [][call'.op = "create_engine" =>
          /\ (~db.exists) <=> (Len(steps') >= 2 /\ steps'[2] = "data_pipeline")
          /\ ~db.exists => (HasTable(db', "orders") /\ db'.tables["orders"] # <<>>)
          /\ db.exists => db' = db]_vars

\* The stage is among the stages of the operation just done.
StageDone(st, stage) == \E i \in 1..Len(st) : st[i] = stage

\* C21: in data_pipeline the orders table is dropped and recreated only after
\* all 8 sources have loaded and process_data has succeeded; a missing source
\* or a failing transform leaves the persisted orders table unchanged.
C21_SetupAfterTransform ==
    [][call'.op = "data_pipeline" =>
          /\ (files # AllFiles \/ ~HasColumns(csv)) =>
                 (db' = db /\ ~StageDone(steps', "setup_database"))
          /\ \A i \in 1..Len(steps') :
                 steps'[i] = "setup_database" =>
                     /\ \E j \in 1..(i - 1) : steps'[j] = "load_csv_data"
                     /\ \E j \in 1..(i - 1) : steps'[j] = "process_data"]_vars

\* C21 witness: the transform failed on a store that held a populated orders
\* table, which is still there.
C21_Witness ==
    /\ call.op = "data_pipeline"
    /\ files = AllFiles
    /\ ~HasColumns(csv)
    /\ "orders" \in call.tables_before
    /\ db.tables["orders"] # <<>>
    /\ StageDone(steps, "log.error: Data pipeline failed")

\* The same with a missing source.
C21_WitnessMissingSource ==
    /\ call.op = "data_pipeline"
    /\ files # AllFiles
    /\ "orders" \in call.tables_before
    /\ db.tables["orders"] # <<>>
    /\ StageDone(steps, "log.error: Data pipeline failed")

\* C22: insert_data_into_db is all-or-nothing: after it returns either every
\* row of the fact table is persisted (one commit) or, on any exception, none
\* is (rollback); in both outcomes the session is closed.
C22_InsertAllOrNothing ==
    [][call'.op = "insert_data_into_db" =>
          /\ ret'.kind = "returned"
          /\ \/ /\ db'.tables["orders"] = db.tables["orders"] \o call'.rows
                /\ StageDone(steps', "session.commit")
                /\ db.insert_fault = 0
             \/ /\ db' = db
                /\ StageDone(steps', "session.rollback")
                /\ ~StageDone(steps', "session.commit")
                /\ db.insert_fault # 0
          /\ \A t \in DOMAIN db.tables \ {"orders"} :
                 HasTable(db', t) /\ db'.tables[t] = db.tables[t]
          /\ steps'[Len(steps')] = "session.close"]_vars

\* C22 witness: the second of two records met an exception; the table is as
\* it was and the session is closed.
C22_Witness ==
    /\ call.op = "insert_data_into_db"
    /\ Len(call.rows) = 2
    /\ db.insert_fault = 2
    /\ db.tables["orders"] = call.orders_before
    /\ StageDone(steps, "session.rollback")
    /\ steps[Len(steps)] = "session.close"

\* The tables of analyze_and_load in the order it writes them.
AnalysisOrder ==
    <<"customers_analysis", "sellers_analysis", "products_analysis", "sales_analysis">>

\* The table is in both stores with the same rows, or in neither.
SameTable(d1, d2, name) ==
    /\ HasTable(d1, name) <=> HasTable(d2, name)
    /\ HasTable(d1, name) => d1.tables[name] = d2.tables[name]

\* C23: analyze_and_load computes all four views from one load of the orders
\* table before it writes any, and writes them in the order customers, sellers,
\* products, sales: a failure while loading or computing leaves every analysis
\* table unchanged, and a failure while saving one table propagates to the
\* caller with no later table written.
C23_ComputeThenSaveInOrder ==
    [][call'.op = "analyze_and_load" =>
          LET computed == HasTable(db, "orders") /\ db.tables["orders"] # <<>>
              k == db.save_fault
          IN  /\ SameTable(db', db, "orders")
              /\ ~computed =>
                     /\ ret'.kind = "raised"
                     /\ \A j \in 1..4 : SameTable(db', db, AnalysisOrder[j])
              /\ (computed /\ k # 0) =>
                     /\ ret'.kind = "raised"
                     /\ \A j \in 1..4 :
                            /\ j > k => SameTable(db', db, AnalysisOrder[j])
                            /\ j < k =>
                                   /\ HasTable(db', AnalysisOrder[j])
                                   /\ db'.tables[AnalysisOrder[j]]
                                          \in ViewsOf(AnalysisOrder[j], db.tables["orders"])
              /\ (computed /\ k = 0) =>
                     /\ ret'.kind = "returned"
                     /\ \A j \in 1..4 :
                            /\ HasTable(db', AnalysisOrder[j])
                            /\ db'.tables[AnalysisOrder[j]]
                                   \in ViewsOf(AnalysisOrder[j], db.tables["orders"])]_vars

\* C23 witness: the second save failed on a store whose four tables were
\* written from an older orders table: customers_analysis is new, the last two
\* are the old ones, and the exception reached the caller.
C23_Witness ==
    /\ call.op = "analyze_and_load"
    /\ db.save_fault = 2
    /\ ret.kind = "raised" /\ ret.error = "DatabaseError"
    /\ Len(db.tables["orders"]) = 2
    /\ {"products_analysis", "sales_analysis"} \subseteq call.tables_before
    /\ db.tables["customers_analysis"] \in get_customer_spending(db.tables["orders"])
    /\ HasTable(db, "products_analysis")
    /\ db.tables["products_analysis"] \notin get_product_sales_analysis(db.tables["orders"])

====
